---- MODULE Spec2Model ----
(***************************************************************************)
(* Model of learning_ai_opponent.py: the BetaTracker counters, the         *)
(* OpponentProfile bundle, the LinUCB bandit and the                       *)
(* LearningAIDiceOpponent engine with its decision, observation and        *)
(* save/restore operations.                                                *)
(*                                                                         *)
(* Numbers.  The program computes in floats; the model computes in exact   *)
(* arithmetic.  A feature vector x is held as Scale*x, the design matrix A *)
(* as Scale*Scale*A and the accumulator b as Scale*b, so that the tracker  *)
(* means alpha/(alpha+beta) are integers and A += x x^T, b += reward*x are *)
(* exact.  Probabilities and random draws are held in hundredths.          *)
(***************************************************************************)
EXTENDS Integers, Sequences, FiniteSets, TLC

(***************************************************************************)
(* Bounds of the model.                                                    *)
(***************************************************************************)
\* The number of learning events (tracker updates and bandit updates) of a behaviour.
MaxLearn == 1
\* The number of LinUCB.update calls in the bandit-only specification.
MaxBanditUpdates == 3

(***************************************************************************)
(* Program constants.                                                      *)
(***************************************************************************)
d == 9
call_risk_bias == 5
truth_bias == 15

(***************************************************************************)
(* Inputs.                                                                 *)
(***************************************************************************)
OppIds == {"p1", "p2"}
\* current_claim is None
NoClaim == <<>>
\* _last_context is None
NoContext == <<>>
RollInputs == {<<2, 4>>, <<1, 4>>}
\* the claims the observation callbacks are handed
ClaimInputs == {<<3, 2>>, <<4, 1>>}
\* current_claim of decide_action, when there is one
DecideClaims == {<<4, 1>>}
\* (current_claim, new_claim) of observe_opponent_raise_size: one step up,
\* two steps up, not above, the same claim
RaiseSizeInputs == {<<<<3, 2>>, <<4, 1>>>>, <<<<3, 2>>, <<4, 2>>>>,
                    <<<<4, 1>>, <<3, 2>>>>, <<<<3, 2>>, <<3, 2>>>>}
\* round_index of decide_action
RoundInputs == {1}
\* Values of random.random() and of a Thompson sample, in hundredths: one
\* in each interval cut by the thresholds 0.25, 0.45, 0.50, 0.80 and 0.85.
RandomDraws == {10, 30, 47, 60, 82, 90}

(***************************************************************************)
(* The claim grammar (external collaborators handed to set_rules): the     *)
(* order of the two-dice game, lowest first; 31 and 41 form the category   *)
(* "special" that the source's comment names.                              *)
(***************************************************************************)
ClaimOrder ==
    << <<3, 1>>, <<3, 2>>, <<4, 1>>, <<4, 2>>, <<4, 3>>, <<5, 1>>, <<5, 2>>,
       <<5, 3>>, <<5, 4>>, <<6, 1>>, <<6, 2>>, <<6, 3>>, <<6, 4>>, <<6, 5>>,
       <<1, 1>>, <<2, 2>>, <<3, 3>>, <<4, 4>>, <<5, 5>>, <<6, 6>>, <<2, 1>> >>

Claims == {ClaimOrder[i] : i \in 1 .. Len(ClaimOrder)}

RankOf == [c \in Claims |-> CHOOSE i \in 1 .. Len(ClaimOrder) : ClaimOrder[i] = c]

Rank(c) == RankOf[c]

compare_claims(a, b) ==
    IF Rank(a) < Rank(b) THEN -1 ELSE IF Rank(a) = Rank(b) THEN 0 ELSE 1

next_higher_claim(c) == ClaimOrder[Rank(c) + 1]

categorize_claim(c) ==
    IF c = <<2, 1>> THEN "mexican"
    ELSE IF c[1] = c[2] THEN "double"
    ELSE IF c \in {<<3, 1>>, <<4, 1>>} THEN "special"
    ELSE "normal"

claim_matches_roll(c, roll) ==
    c = << IF roll[1] >= roll[2] THEN roll[1] ELSE roll[2],
           IF roll[1] >= roll[2] THEN roll[2] ELSE roll[1] >>

(***************************************************************************)
(* BetaTracker.                                                            *)
(***************************************************************************)
BetaTracker(a, b) == [alpha |-> a, beta |-> b]

\* Largest alpha + beta the bounds allow: 6 in a prior or a loaded tracker,
\* plus one per learning event.
MaxSum == 6 + MaxLearn

RECURSIVE GCD(_, _)
GCD(m, n) == IF n = 0 THEN m ELSE GCD(n, m % n)

RECURSIVE LCMUpTo(_)
LCMUpTo(n) == IF n <= 1 THEN 1 ELSE (LCMUpTo(n - 1) * n) \div GCD(LCMUpTo(n - 1), n)

\* The common denominator of every tracker mean.
Scale == LCMUpTo(MaxSum)

\* mean(), times Scale
mean(t) == (Scale * t.alpha) \div (t.alpha + t.beta)

\* (mutant) a failure takes one off beta
BetaTracker_update_decay(t, success) ==
    IF success THEN [t EXCEPT !.alpha = @ + 1] ELSE [t EXCEPT !.beta = @ - 1]

BetaTracker_update(t, success) ==
    IF success THEN [t EXCEPT !.alpha = @ + 1] ELSE [t EXCEPT !.beta = @ + 1]

(***************************************************************************)
(* OpponentProfile.                                                        *)
(***************************************************************************)
OpponentProfile ==
    [bluff_rate |-> [c \in {"mexican", "double", "normal"} |->
                        IF c = "mexican" THEN BetaTracker(1, 3)
                        ELSE IF c = "double" THEN BetaTracker(1, 2)
                        ELSE BetaTracker(1, 1)],
     call_rate |-> BetaTracker(1, 2),
     small_raise_pref |-> BetaTracker(1, 1)]

\* dict.get(cat, BetaTracker(1, 1)): the tracker under cat, or a temporary one
bluff_rate_get(prof, cat) ==
    IF cat \in DOMAIN prof.bluff_rate THEN prof.bluff_rate[cat] ELSE BetaTracker(1, 1)

\* (mutant) the new key gets the prior of "double"
bluff_rate_setdefault_double(rates, cat) ==
    IF cat \in DOMAIN rates THEN rates
    ELSE [c \in DOMAIN rates \cup {cat} |-> IF c = cat THEN BetaTracker(1, 2) ELSE rates[c]]

\* dict.setdefault(cat, BetaTracker(1, 1)): the dict with cat present
bluff_rate_setdefault(rates, cat) ==
    IF cat \in DOMAIN rates THEN rates
    ELSE [c \in DOMAIN rates \cup {cat} |-> IF c = cat THEN BetaTracker(1, 1) ELSE rates[c]]

\* defaultdict(OpponentProfile)[opp]: the mapping with opp present
profiles_touch(profs, opp) ==
    IF opp \in DOMAIN profs THEN profs
    ELSE [o \in DOMAIN profs \cup {opp} |-> IF o = opp THEN OpponentProfile ELSE profs[o]]

\* self._profiles[opp] = prof
profiles_put(profs, opp, prof) ==
    [o \in DOMAIN profs \cup {opp} |-> IF o = opp THEN prof ELSE profs[o]]

(***************************************************************************)
(* LinUCB.                                                                 *)
(***************************************************************************)
Dims == 1 .. d

\* np.eye(d), times s
Eye(s) == [i \in Dims |-> [j \in Dims |-> IF i = j THEN s ELSE 0]]

\* np.zeros((d, 1))
Zeros == [i \in Dims |-> 0]

\* bandit.A of a new engine, in the model's units
Identity == Eye(Scale * Scale)

\* (mutant) the reward is dropped from b's increment
LinUCB_update_unsigned(A0, b0, x, reward) ==
    [A |-> [i \in Dims |-> [j \in Dims |-> A0[i][j] + x[i] * x[j]]],
     b |-> [i \in Dims |-> b0[i] + x[i]]]

\* (mutant) the reward scales A's increment too
LinUCB_update_scaled(A0, b0, x, reward) ==
    [A |-> [i \in Dims |-> [j \in Dims |-> A0[i][j] + reward * x[i] * x[j]]],
     b |-> [i \in Dims |-> b0[i] + reward * x[i]]]

\* A += x @ x.T ; b += reward * x
LinUCB_update(A0, b0, x, reward) ==
    [A |-> [i \in Dims |-> [j \in Dims |-> A0[i][j] + x[i] * x[j]]],
     b |-> [i \in Dims |-> b0[i] + reward * x[i]]]

RECURSIVE SumSq(_, _)
SumSq(x, n) == IF n = 0 THEN 0 ELSE SumSq(x, n - 1) + x[n] * x[n]

(***************************************************************************)
(* LinUCB.choose over {"CALL": ctx_call, "RAISE": ctx_raise}.  With        *)
(* A = I and b = 0 the inverse is I and theta is 0, so the score of x is   *)
(* alpha * sqrt(x^T x) and max() returns the first key of the largest      *)
(* score.  For any other A and b the scores need the inverse of a 9 x 9    *)
(* matrix; the model then admits either action.                            *)
(***************************************************************************)
\* (mutant) alpha = 0: every score is 0 at A = I, b = 0, and max() returns "CALL"
LinUCB_choose_no_bonus(A0, b0, ctx_call, ctx_raise) ==
    IF A0 = Identity /\ b0 = Zeros THEN {"CALL"} ELSE {"CALL", "RAISE"}

LinUCB_choose(A0, b0, ctx_call, ctx_raise) ==
    IF A0 = Identity /\ b0 = Zeros
    THEN IF SumSq(ctx_raise, d) > SumSq(ctx_call, d) THEN {"RAISE"} ELSE {"CALL"}
    ELSE {"CALL", "RAISE"}

(***************************************************************************)
(* LearningAIDiceOpponent: the state.                                      *)
(***************************************************************************)
VARIABLES
    rules,          \* which of the four collaborator attributes are set (not None)
    profiles,       \* _profiles: opponent id -> OpponentProfile
    A,              \* bandit.A, times Scale*Scale
    b,              \* bandit.b, times Scale
    last_context,   \* _last_context: NoContext or <<opponent id, action, vector>>
    call,           \* the last call made on the engine, with its arguments
    ret,            \* what that call returned or raised
    path,           \* the branch of decide_action that returned
    nLearn,         \* learning events so far
    draw            \* the value of random.random() _pick_pressure_claim drew, in
                    \* hundredths, where the function is run on its own

vars == <<rules, profiles, A, b, last_context, call, ret, path, nLearn, draw>>

RuleNames == {"compare_claims", "next_higher_claim", "categorize_claim", "claim_matches_roll"}

\* (mutant) the assertion leaves claim_matches_roll out
ThreeRulesSet == \A r \in RuleNames \ {"claim_matches_roll"} : rules[r]

\* all([...]) of the assertion that opens decide_action
AllRulesSet == \A r \in RuleNames : rules[r]

NoProfiles == [o \in {} |-> OpponentProfile]

\* call.state when the call is not load_state
NoState == "none"

Call(op, opp, claim, roll, claim2, round, flag, state) ==
    [op |-> op, opp |-> opp, claim |-> claim, roll |-> roll, claim2 |-> claim2,
     round |-> round, flag |-> flag, state |-> state]

RetNone == [type |-> "none", claim |-> NoClaim]
RetError == [type |-> "error", claim |-> NoClaim]
RetCallBluff == [type |-> "call_bluff", claim |-> NoClaim]
RetRaise(c) == [type |-> "raise", claim |-> c]
\* state() returns state_of(A, b, profiles) of the state it is called in and
\* changes nothing: the mapping is that of the state the call leaves
RetState == [type |-> "state", claim |-> NoClaim]

\* __init__
Init ==
    /\ rules = [r \in RuleNames |-> FALSE]
    /\ profiles = NoProfiles
    /\ A = Identity
    /\ b = Zeros
    /\ last_context = NoContext
    /\ call = Call("__init__", "p1", NoClaim, <<1, 1>>, NoClaim, 0, FALSE, NoState)
    /\ ret = RetNone
    /\ path = "none"
    /\ nLearn = 0
    /\ draw = 0

\* set_rules: each argument is a function or None.  The rules are injected
\* once, before the engine is used.
set_rules(given) ==
    /\ call.op = "__init__"
    /\ rules' = given
    /\ call' = Call("set_rules", "p1", NoClaim, <<1, 1>>, NoClaim, 0, FALSE, NoState)
    /\ ret' = RetNone
    /\ path' = "none"
    /\ UNCHANGED <<profiles, A, b, last_context, nLearn, draw>>

(***************************************************************************)
(* LearningAIDiceOpponent: the utilities.                                  *)
(***************************************************************************)
canonical_claim_from_roll(roll) ==
    << IF roll[1] >= roll[2] THEN roll[1] ELSE roll[2],
       IF roll[1] >= roll[2] THEN roll[2] ELSE roll[1] >>

\* (mutant) a truthful claim equal to the current claim is taken too
best_truthful_above_or_equal(current_claim, my_roll) ==
    LET truth_claim == canonical_claim_from_roll(my_roll)
    IN  IF compare_claims(truth_claim, current_claim) >= 0 THEN truth_claim ELSE NoClaim

best_truthful_above(current_claim, my_roll) ==
    LET truth_claim == canonical_claim_from_roll(my_roll)
    IN  IF compare_claims(truth_claim, current_claim) > 0 THEN truth_claim ELSE NoClaim

RECURSIVE Steps(_, _)
\* for _ in range(n): claim = next_higher_claim(claim)
Steps(claim, n) == IF n = 0 THEN claim ELSE Steps(next_higher_claim(claim), n - 1)

\* (mutant) the second test is an elif of the first
pick_pressure_claim_elif(current_claim, allow_bluff, opp, r) ==
    LET p_call == mean(opp.call_rate)
        extra == IF 100 * p_call > 55 * Scale /\ r < 50 THEN 1
                 ELSE IF 100 * p_call > 65 * Scale /\ r < 25 THEN 2 ELSE 0
        step == IF allow_bluff THEN 1 + extra ELSE 1
    IN  Steps(current_claim, step)

\* r is the one value of random.random() the call draws, in hundredths
pick_pressure_claim(current_claim, allow_bluff, opp, r) ==
    LET p_call == mean(opp.call_rate)
        extra1 == IF 100 * p_call > 55 * Scale /\ r < 50 THEN 1 ELSE 0
        extra == IF 100 * p_call > 65 * Scale /\ r < 25 THEN 2 ELSE extra1
        step == IF allow_bluff THEN 1 + extra ELSE 1
    IN  Steps(current_claim, step)

\* n is the value of random.choice([1, 1, 2])
pressure_jump_above(baseline, n) == Steps(baseline, n)

is_weak_truth(claim) == categorize_claim(claim) = "normal"

\* times Scale
cat_onehot(cat) ==
    << IF cat = "mexican" THEN Scale ELSE 0,
       IF cat = "double" THEN Scale ELSE 0,
       IF cat = "normal" THEN Scale ELSE 0 >>

RECURSIVE WalkUp(_, _, _, _)
\* while compare_claims(cur, target) < 0 and steps < cap: cur = next; steps += 1
WalkUp(cur, target, steps, cap) ==
    IF compare_claims(cur, target) < 0 /\ steps < cap
    THEN WalkUp(next_higher_claim(cur), target, steps + 1, cap)
    ELSE steps

distance_from_next(current_claim, my_roll) ==
    LET truth == canonical_claim_from_roll(my_roll)
    IN  IF compare_claims(truth, current_claim) <= 0 THEN 0
        ELSE WalkUp(current_claim, truth, 0, 20)

\* (mutant) a claim above counts one step, however far
step_distance_above(c1, c2) ==
    IF compare_claims(c1, c2) >= 0 THEN 0 ELSE 1

step_distance(c1, c2) ==
    IF compare_claims(c1, c2) >= 0 THEN 0 ELSE WalkUp(c1, c2, 0, 30)

\* The nine features, times Scale: the category's one-hot, the two means,
\* the truthful-claim flag, the distance, the round index, the action flag.
make_context(current_claim, round_index, onehot, bluff_mean, p_call_mean, has_truthful, dist, raise_flag) ==
    << onehot[1], onehot[2], onehot[3], bluff_mean, p_call_mean,
       IF has_truthful THEN Scale ELSE 0, Scale * dist, Scale * round_index,
       Scale * raise_flag >>

(***************************************************************************)
(* decide_action.                                                          *)
(***************************************************************************)
\* The context vector decide_action builds for (opponent_id, current_claim,
\* my_roll, round_index) from the profile opp, with the given action flag.
decide_context(opp, current_claim, my_roll, round_index, raise_flag) ==
    LET truthful == best_truthful_above(current_claim, my_roll)
        cat == categorize_claim(current_claim)
    IN  make_context(current_claim, round_index, cat_onehot(cat),
                     mean(bluff_rate_get(opp, cat)), mean(opp.call_rate),
                     truthful # NoClaim, distance_from_next(current_claim, my_roll),
                     raise_flag)

\* the values of random.random() under a threshold t, and the others
DrawsBelow(t) == {r \in RandomDraws : r < t}

DrawsNotBelow(t) == {r \in RandomDraws : r >= t}

\* (mutant) the non-bandit returns leave the slot as it was
stale_context == last_context

\* What decide_action leaves in _last_context on its two non-bandit returns.
cleared_context == NoContext

\* The return through the opening branch (current_claim is None).
decide_opening(my_roll) ==
    LET truth == canonical_claim_from_roll(my_roll)
        openings == IF is_weak_truth(truth)
                    THEN {pressure_jump_above(<<3, 2>>, n) : n \in {1, 2}}
                    ELSE {truth}
    IN  /\ \E opening \in openings : ret' = RetRaise(opening)
        /\ last_context' = cleared_context
        /\ path' = "opening"
        /\ UNCHANGED <<profiles, A, b, nLearn>>

\* The immediate truthful raise.
decide_truthful(current_claim, my_roll) ==
    /\ best_truthful_above(current_claim, my_roll) # NoClaim
    /\ DrawsBelow(65 + truth_bias) # {}
    /\ last_context' = cleared_context
    /\ ret' = RetRaise(best_truthful_above(current_claim, my_roll))
    /\ path' = "truthful"
    /\ UNCHANGED <<profiles, A, b, nLearn>>

\* The claims the raise after the bandit may carry.
raise_claims(current_claim, truthful, opp) ==
    {c \in {truthful} : truthful # NoClaim /\ DrawsBelow(70 + truth_bias) # {}}
    \cup {pick_pressure_claim(current_claim, TRUE, opp, r) :
            r \in {r2 \in RandomDraws :
                     truthful = NoClaim \/ DrawsNotBelow(70 + truth_bias) # {}}}

\* ev_call >= -0.15 for a Thompson sample, in hundredths
call_gate(p_bluff_sample) == 2 * p_bluff_sample - 100 - call_risk_bias >= -15

\* The branches decide_action may return through once the bandit has chosen
\* one of choices: the challenge when "CALL" is chosen and a sample passes
\* the gate, the raise when "RAISE" is chosen or a sample fails the gate.
bandit_returns(choices) ==
    {taken \in {"CALL"} : "CALL" \in choices /\ \E p \in RandomDraws : call_gate(p)}
    \cup {taken \in {"RAISE"} :
            "RAISE" \in choices \/ ("CALL" \in choices /\ \E p \in RandomDraws : ~call_gate(p))}

\* The return through the bandit.
decide_bandit(opponent_id, current_claim, my_roll, round_index) ==
    LET truthful == best_truthful_above(current_claim, my_roll)
        profs == profiles_touch(profiles, opponent_id)
        opp == profs[opponent_id]
        ctx_call == decide_context(opp, current_claim, my_roll, round_index, 0)
        ctx_raise == decide_context(opp, current_claim, my_roll, round_index, 1)
    IN  /\ truthful # NoClaim => DrawsNotBelow(65 + truth_bias) # {}
        /\ profiles' = profs
        /\ path' = "bandit"
        /\ UNCHANGED <<A, b, nLearn>>
        /\ \E taken \in bandit_returns(LinUCB_choose(A, b, ctx_call, ctx_raise)) :
             IF taken = "CALL"
             THEN /\ last_context' = <<opponent_id, "CALL", ctx_call>>
                  /\ ret' = RetCallBluff
             ELSE /\ \E claim \in raise_claims(current_claim, truthful, opp) :
                       ret' = RetRaise(claim)
                  /\ last_context' = <<opponent_id, "RAISE", ctx_raise>>

decide_action(opponent_id, current_claim, my_roll, round_index) ==
    /\ call' = Call("decide_action", opponent_id, current_claim, my_roll, NoClaim,
                    round_index, FALSE, NoState)
    /\ IF ~AllRulesSet
       THEN /\ ret' = RetError
            /\ path' = "none"
            /\ UNCHANGED <<profiles, A, b, last_context, nLearn>>
       ELSE IF current_claim = NoClaim
       THEN decide_opening(my_roll)
       ELSE \/ decide_truthful(current_claim, my_roll)
            \/ decide_bandit(opponent_id, current_claim, my_roll, round_index)
    /\ UNCHANGED <<rules, draw>>

(***************************************************************************)
(* The observation callbacks.  A callback that calls a collaborator that   *)
(* is None raises TypeError at that call, before it changes anything.      *)
(***************************************************************************)
\* (mutant) the tracker is updated with a match as the success
showdown_profiles_inverted(profs, opponent_id, cat, was_bluff) ==
    LET touched == profiles_touch(profs, opponent_id)
        rates == bluff_rate_setdefault(touched[opponent_id].bluff_rate, cat)
    IN  [touched EXCEPT ![opponent_id].bluff_rate =
            [rates EXCEPT ![cat] = BetaTracker_update(@, ~was_bluff)]]

\* _profiles[opponent_id].bluff_rate.setdefault(cat, BetaTracker(1, 1)).update(was_bluff)
showdown_profiles(profs, opponent_id, cat, was_bluff) ==
    LET touched == profiles_touch(profs, opponent_id)
        rates == bluff_rate_setdefault(touched[opponent_id].bluff_rate, cat)
    IN  [touched EXCEPT ![opponent_id].bluff_rate =
            [rates EXCEPT ![cat] = BetaTracker_update(@, was_bluff)]]

observe_showdown(opponent_id, opponent_claim, actual_opponent_roll, caller_is_cpu) ==
    /\ call' = Call("observe_showdown", opponent_id, opponent_claim, actual_opponent_roll,
                    NoClaim, 0, caller_is_cpu, NoState)
    /\ path' = "none"
    /\ IF ~(rules["claim_matches_roll"] /\ rules["categorize_claim"])
       THEN /\ ret' = RetError
            /\ UNCHANGED <<profiles, nLearn>>
       ELSE /\ nLearn < MaxLearn
            /\ profiles' = showdown_profiles(profiles, opponent_id,
                               categorize_claim(opponent_claim),
                               ~claim_matches_roll(opponent_claim, actual_opponent_roll))
            /\ nLearn' = nLearn + 1
            /\ ret' = RetNone
    /\ UNCHANGED <<rules, A, b, last_context, draw>>

\* (mutant) the profiles share one call_rate tracker
observe_our_raise_resolved_shared(opponent_id, opponent_called) ==
    /\ nLearn < MaxLearn
    /\ call' = Call("observe_our_raise_resolved", opponent_id, NoClaim, <<1, 1>>, NoClaim,
                    0, opponent_called, NoState)
    /\ path' = "none"
    /\ profiles' = [o \in DOMAIN profiles \cup {opponent_id} |->
                       [profiles_touch(profiles, o)[o] EXCEPT
                           !.call_rate = BetaTracker_update(@, opponent_called)]]
    /\ nLearn' = nLearn + 1
    /\ ret' = RetNone
    /\ UNCHANGED <<rules, A, b, last_context, draw>>

\* cpu_claim and cpu_roll are not read
observe_our_raise_resolved(opponent_id, opponent_called) ==
    /\ nLearn < MaxLearn
    /\ call' = Call("observe_our_raise_resolved", opponent_id, NoClaim, <<1, 1>>, NoClaim,
                    0, opponent_called, NoState)
    /\ path' = "none"
    /\ profiles' = [profiles_touch(profiles, opponent_id) EXCEPT
                       ![opponent_id].call_rate = BetaTracker_update(@, opponent_called)]
    /\ nLearn' = nLearn + 1
    /\ ret' = RetNone
    /\ UNCHANGED <<rules, A, b, last_context, draw>>

observe_opponent_raise_size(opponent_id, current_claim, new_claim) ==
    /\ call' = Call("observe_opponent_raise_size", opponent_id, current_claim, <<1, 1>>,
                    new_claim, 0, FALSE, NoState)
    /\ path' = "none"
    /\ IF \/ ~rules["compare_claims"]
          \/ compare_claims(current_claim, new_claim) < 0 /\ ~rules["next_higher_claim"]
       THEN /\ ret' = RetError
            /\ UNCHANGED <<profiles, nLearn>>
       ELSE /\ nLearn < MaxLearn
            /\ profiles' = [profiles_touch(profiles, opponent_id) EXCEPT
                               ![opponent_id].small_raise_pref =
                                   BetaTracker_update(@, step_distance(current_claim, new_claim) = 1)]
            /\ nLearn' = nLearn + 1
            /\ ret' = RetNone
    /\ UNCHANGED <<rules, A, b, last_context, draw>>

\* (mutant) no early return: unpacking None raises
observe_round_outcome_unguarded(did_cpu_win_round) ==
    /\ call' = Call("observe_round_outcome", "p1", NoClaim, <<1, 1>>, NoClaim, 0,
                    did_cpu_win_round, NoState)
    /\ path' = "none"
    /\ IF last_context = NoContext
       THEN /\ ret' = RetError
            /\ UNCHANGED <<A, b, last_context, nLearn>>
       ELSE /\ nLearn < MaxLearn
            /\ ret' = RetNone
            /\ A' = LinUCB_update(A, b, last_context[3], IF did_cpu_win_round THEN 1 ELSE -1).A
            /\ b' = LinUCB_update(A, b, last_context[3], IF did_cpu_win_round THEN 1 ELSE -1).b
            /\ last_context' = NoContext
            /\ nLearn' = nLearn + 1
    /\ UNCHANGED <<rules, profiles, draw>>

\* (mutant) the slot is not cleared after the update
observe_round_outcome_keeps(did_cpu_win_round) ==
    /\ call' = Call("observe_round_outcome", "p1", NoClaim, <<1, 1>>, NoClaim, 0,
                    did_cpu_win_round, NoState)
    /\ path' = "none"
    /\ ret' = RetNone
    /\ IF last_context = NoContext
       THEN UNCHANGED <<A, b, nLearn>>
       ELSE /\ nLearn < MaxLearn
            /\ A' = LinUCB_update(A, b, last_context[3], IF did_cpu_win_round THEN 1 ELSE -1).A
            /\ b' = LinUCB_update(A, b, last_context[3], IF did_cpu_win_round THEN 1 ELSE -1).b
            /\ nLearn' = nLearn + 1
    /\ UNCHANGED <<rules, profiles, last_context, draw>>

observe_round_outcome(did_cpu_win_round) ==
    /\ call' = Call("observe_round_outcome", "p1", NoClaim, <<1, 1>>, NoClaim, 0,
                    did_cpu_win_round, NoState)
    /\ path' = "none"
    /\ ret' = RetNone
    /\ IF last_context = NoContext
       THEN UNCHANGED <<A, b, last_context, nLearn>>
       ELSE /\ nLearn < MaxLearn
            /\ LET ctx == last_context[3]
                   reward == IF did_cpu_win_round THEN 1 ELSE -1
                   updated == LinUCB_update(A, b, ctx, reward)
               IN  /\ A' = updated.A
                   /\ b' = updated.b
            /\ last_context' = NoContext
            /\ nLearn' = nLearn + 1
    /\ UNCHANGED <<rules, profiles, draw>>

(***************************************************************************)
(* state and load_state.  In a saved state a tracker is the pair           *)
(* (alpha, beta); keys is the set of top-level keys the mapping has.       *)
(***************************************************************************)
\* (mutant) call_rate is written as (beta, alpha)
saved_profile_swapped(p) ==
    [bluff_rate |-> [k \in DOMAIN p.bluff_rate |->
                        <<p.bluff_rate[k].alpha, p.bluff_rate[k].beta>>],
     call_rate |-> <<p.call_rate.beta, p.call_rate.alpha>>,
     small_raise_pref |-> <<p.small_raise_pref.alpha, p.small_raise_pref.beta>>]

saved_profile(p) ==
    [bluff_rate |-> [k \in DOMAIN p.bluff_rate |->
                        <<p.bluff_rate[k].alpha, p.bluff_rate[k].beta>>],
     call_rate |-> <<p.call_rate.alpha, p.call_rate.beta>>,
     small_raise_pref |-> <<p.small_raise_pref.alpha, p.small_raise_pref.beta>>]

state_of(A0, b0, profs) ==
    [keys |-> {"profiles", "bandit"},
     bandit |-> [A |-> A0, b |-> b0],
     profiles |-> [o \in DOMAIN profs |-> saved_profile(profs[o])]]

state ==
    /\ call' = Call("state", "p1", NoClaim, <<1, 1>>, NoClaim, 0, FALSE, NoState)
    /\ path' = "none"
    /\ ret' = RetState
    /\ UNCHANGED <<rules, profiles, A, b, last_context, nLearn, draw>>

\* (mutant) the profile is built from an empty bluff_rate
loaded_profile_bare(data) ==
    [bluff_rate |-> [k \in DOMAIN data.bluff_rate |->
                        BetaTracker(data.bluff_rate[k][1], data.bluff_rate[k][2])],
     call_rate |-> BetaTracker(data.call_rate[1], data.call_rate[2]),
     small_raise_pref |-> BetaTracker(data.small_raise_pref[1], data.small_raise_pref[2])]

\* prof = OpponentProfile(), then the loaded pairs written over it
loaded_profile(data) ==
    [bluff_rate |-> [k \in DOMAIN OpponentProfile.bluff_rate \cup DOMAIN data.bluff_rate |->
                        IF k \in DOMAIN data.bluff_rate
                        THEN BetaTracker(data.bluff_rate[k][1], data.bluff_rate[k][2])
                        ELSE OpponentProfile.bluff_rate[k]],
     call_rate |-> BetaTracker(data.call_rate[1], data.call_rate[2]),
     small_raise_pref |-> BetaTracker(data.small_raise_pref[1], data.small_raise_pref[2])]

\* (mutant) _profiles is emptied before the loop
loaded_profiles_only(profs, s) ==
    IF "profiles" \in s.keys
    THEN [o \in DOMAIN s.profiles |-> loaded_profile(s.profiles[o])]
    ELSE NoProfiles

\* the profiles after the loop over state.get("profiles", {})
loaded_profiles(profs, s) ==
    IF "profiles" \in s.keys
    THEN [o \in DOMAIN profs \cup DOMAIN s.profiles |->
            IF o \in DOMAIN s.profiles THEN loaded_profile(s.profiles[o]) ELSE profs[o]]
    ELSE profs

load_state(name, s) ==
    /\ call' = Call("load_state", "p1", NoClaim, <<1, 1>>, NoClaim, 0, FALSE, name)
    /\ path' = "none"
    /\ ret' = RetNone
    /\ IF "bandit" \in s.keys
       THEN A' = s.bandit.A /\ b' = s.bandit.b
       ELSE UNCHANGED <<A, b>>
    /\ profiles' = loaded_profiles(profiles, s)
    /\ UNCHANGED <<rules, last_context, nLearn, draw>>

(***************************************************************************)
(* The saved states handed to load_state.                                  *)
(***************************************************************************)
\* state() of an engine that has played p1: a rewarded raise over <<4, 1>>
\* holding <<4, 2>> in round 1, three called raises and a truthful "special" showdown
SavedUsedProfile ==
    [OpponentProfile EXCEPT
        !.bluff_rate = [bluff_rate_setdefault(@, "special") EXCEPT !["special"] = BetaTracker(1, 2)],
        !.call_rate = BetaTracker(4, 2)]

SavedUsedBandit ==
    LinUCB_update(Identity, Zeros,
                  decide_context(OpponentProfile, <<4, 1>>, <<2, 4>>, 1, 1), 1)

SavedUsed ==
    state_of(SavedUsedBandit.A, SavedUsedBandit.b, [o \in {"p1"} |-> SavedUsedProfile])

\* a mapping written by hand: no "bandit", and a profile that lists one category
SavedByHand ==
    [keys |-> {"profiles"},
     bandit |-> [A |-> Identity, b |-> Zeros],
     profiles |-> [o \in {"p2"} |->
                     [bluff_rate |-> [k \in {"double"} |-> <<2, 2>>],
                      call_rate |-> <<1, 2>>,
                      small_raise_pref |-> <<1, 1>>]]]

LoadNames == {"SavedUsed", "SavedByHand"}

LoadInput(name) == IF name = "SavedUsed" THEN SavedUsed ELSE SavedByHand

\* set_rules with every function given, or with one of them None
RuleInputs == {given \in [RuleNames -> BOOLEAN] : Cardinality({r \in RuleNames : ~given[r]}) <= 1}

(***************************************************************************)
(* The engine under any sequence of calls.                                 *)
(***************************************************************************)
Next ==
    \/ \E given \in RuleInputs : set_rules(given)
    \/ \E o \in OppIds, c \in DecideClaims \cup {NoClaim}, r \in RollInputs, i \in RoundInputs :
          decide_action(o, c, r, i)
    \/ \E o \in OppIds, c \in ClaimInputs, r \in RollInputs, f \in BOOLEAN :
          observe_showdown(o, c, r, f)
    \/ \E o \in OppIds, f \in BOOLEAN : observe_our_raise_resolved(o, f)
    \/ \E o \in OppIds, raised \in RaiseSizeInputs :
          observe_opponent_raise_size(o, raised[1], raised[2])
    \/ \E f \in BOOLEAN : observe_round_outcome(f)
    \/ state
    \/ \E name \in LoadNames : load_state(name, LoadInput(name))
    \/ load_state("SavedNow", state_of(A, b, profiles))

Spec == Init /\ [][Next]_vars

(***************************************************************************)
(* Properties.                                                             *)
(***************************************************************************)
\* The profile decide_action read for its opponent: the one the call left.
DecidedProfile == profiles[call.opp]

\* C1: after a decide_action that returns, _last_context is None when the
\* call had no current claim or took the immediate truthful raise; otherwise
\* it is (opponent_id, action, vector) of this very call: "CALL" with the
\* vector of flag 0 when the call returned call_bluff, "RAISE" with the
\* vector of flag 1 when it returned a raise, and the two vectors agree in
\* the other eight components.
C1_PendingAfterDecide ==
    (call.op = "decide_action" /\ ret.type # "error") =>
        /\ (call.claim = NoClaim) = (path = "opening")
        /\ path \in {"opening", "truthful"} => last_context = NoContext
        /\ path = "bandit" =>
             LET x0 == decide_context(DecidedProfile, call.claim, call.roll, call.round, 0)
                 x1 == decide_context(DecidedProfile, call.claim, call.roll, call.round, 1)
             IN  /\ \A i \in 1 .. d - 1 : x0[i] = x1[i]
                 /\ x0[d] = 0 /\ x1[d] = Scale
                 /\ ret.type = "call_bluff" => last_context = <<call.opp, "CALL", x0>>
                 /\ ret.type = "raise" => last_context = <<call.opp, "RAISE", x1>>
                 /\ ret.type \in {"call_bluff", "raise"}

\* C1 witness: a challenge for p2 decided by the bandit, recorded in the slot.
C1_Witness ==
    /\ call.op = "decide_action" /\ path = "bandit" /\ ret.type = "call_bluff"
    /\ call.opp = "p2" /\ last_context # NoContext /\ last_context[2] = "CALL"

\* C2: observe_round_outcome called with _last_context None raises nothing
\* and leaves bandit.A, bandit.b, every profile and the slot as they were.
C2_EmptyOutcomeIsNoOp ==
    [][(call'.op = "observe_round_outcome" /\ last_context = NoContext) =>
          /\ ret'.type = "none"
          /\ UNCHANGED <<A, b, profiles, last_context>>]_vars

\* C2 witness: the call made on an engine that knows an opponent and holds
\* nothing in the slot, with no bandit update made.
C2_Witness ==
    /\ call.op = "observe_round_outcome" /\ ret.type = "none"
    /\ nLearn = 0 /\ A = Identity /\ last_context = NoContext
    /\ profiles # NoProfiles

\* C3: observe_round_outcome called with (opponent, action, x) in the slot
\* adds x x^T to A and reward * x to b, reward +1 for a win and -1 otherwise,
\* and empties the slot; the profiles stay.  A second observe_round_outcome
\* right after the first changes nothing.
C3_OutcomeUpdatesBandit ==
    [][/\ (call'.op = "observe_round_outcome" /\ last_context # NoContext) =>
            LET x == last_context[3]
                reward == IF call'.flag THEN 1 ELSE -1
            IN  /\ \A i \in Dims : \A j \in Dims : A'[i][j] = A[i][j] + x[i] * x[j]
                /\ \A i \in Dims : b'[i] = b[i] + reward * x[i]
                /\ last_context' = NoContext
                /\ ret'.type = "none"
                /\ UNCHANGED profiles
       /\ (call.op = "observe_round_outcome" /\ call'.op = "observe_round_outcome") =>
            UNCHANGED <<A, b, profiles, last_context>>]_vars

\* C3 witness: a lost round has been fed to the bandit.
C3_Witness ==
    /\ call.op = "observe_round_outcome" /\ ~call.flag
    /\ nLearn = 1 /\ A # Identity /\ b[d] < 0 /\ last_context = NoContext

\* C4 (as claimed): on a new engine, decide_action with no current claim and
\* a roll whose truthful claim is "normal" raises with a claim strictly above
\* the truthful claim.
C4_OpeningAboveTruth ==
    (/\ call.op = "decide_action" /\ call.claim = NoClaim /\ ret.type = "raise"
     /\ A = Identity /\ b = Zeros /\ profiles = NoProfiles
     /\ categorize_claim(canonical_claim_from_roll(call.roll)) = "normal") =>
        compare_claims(ret.claim, canonical_claim_from_roll(call.roll)) > 0

\* C5: decide_action called while one of the four collaborators is None
\* raises, and leaves the bandit, the profiles and the slot as they were.
C5_DecideNeedsRules ==
    [][(call'.op = "decide_action" /\ \E r \in RuleNames : ~rules[r]) =>
          /\ ret'.type = "error"
          /\ UNCHANGED <<A, b, profiles, last_context>>]_vars

\* C5 witness: the call aborted on an engine that lacks claim_matches_roll
\* only and already knows an opponent.
C5_Witness ==
    /\ call.op = "decide_action" /\ ret.type = "error"
    /\ ~rules["claim_matches_roll"]
    /\ \A r \in RuleNames \ {"claim_matches_roll"} : rules[r]
    /\ profiles # NoProfiles

TrackersOf(p) ==
    {p.call_rate, p.small_raise_pref} \cup {p.bluff_rate[k] : k \in DOMAIN p.bluff_rate}

PositiveCounters ==
    \A o \in DOMAIN profiles : \A t \in TrackersOf(profiles[o]) : t.alpha > 0 /\ t.beta > 0

NotLower(t, u) == u.alpha >= t.alpha /\ u.beta >= t.beta

\* every tracker of this state is there in the next, with no counter lower
NoCounterLowered ==
    \A o \in DOMAIN profiles :
        /\ o \in DOMAIN profiles'
        /\ NotLower(profiles[o].call_rate, profiles'[o].call_rate)
        /\ NotLower(profiles[o].small_raise_pref, profiles'[o].small_raise_pref)
        /\ \A k \in DOMAIN profiles[o].bluff_rate :
              /\ k \in DOMAIN profiles'[o].bluff_rate
              /\ NotLower(profiles[o].bluff_rate[k], profiles'[o].bluff_rate[k])

\* C6 (as claimed): under any sequence of calls, load_state among them, both
\* counters of every tracker are positive and no counter is ever lower than
\* it was before.
C6_CountersNeverLower == [][PositiveCounters' /\ NoCounterLowered]_vars

\* C6 (amended): both counters of every tracker are positive in every state
\* (the loaded states carrying positive counters), and no call other than
\* load_state lowers a counter; load_state puts the saved counters in place
\* of the current ones.
C6_CountersLowerOnlyByLoad ==
    /\ []PositiveCounters
    /\ [][call'.op # "load_state" => (UNCHANGED profiles \/ NoCounterLowered)]_vars

\* C6 witness: a showdown has raised a counter of the opponent's tracker.
C6_Witness ==
    /\ call.op = "observe_showdown" /\ ret.type = "none" /\ nLearn = 1
    /\ call.opp \in DOMAIN profiles
    /\ LET t == profiles[call.opp].bluff_rate[categorize_claim(call.claim)]
       IN  t.alpha + t.beta >= 3

\* The profile the call starts from: the opponent's, or a new one.
ProfileBefore(o) == IF o \in DOMAIN profiles THEN profiles[o] ELSE OpponentProfile

\* C7 (as claimed): the lookup of the current claim's category by
\* decide_action, and the one by observe_showdown, leave the category a key
\* of the opponent's bluff_rate.
C7_LookupCreatesKey ==
    /\ (call.op = "decide_action" /\ path = "bandit") =>
          categorize_claim(call.claim) \in DOMAIN profiles[call.opp].bluff_rate
    /\ (call.op = "observe_showdown" /\ ret.type = "none") =>
          categorize_claim(call.claim) \in DOMAIN profiles[call.opp].bluff_rate

\* C7 (amended): decide_action reads an unseen category through a tracker
\* of prior (1, 1) that it does not keep, so the keys of bluff_rate stay as
\* they were and the bluff-mean feature is 1/2; observe_showdown creates the
\* key with prior (1, 1) and then counts the showdown in it.  Neither raises
\* for an unseen category.
C7_LookupOfUnseenCategory ==
    [][/\ (call'.op = "decide_action" /\ path' = "bandit") =>
            LET cat == categorize_claim(call'.claim)
                before == ProfileBefore(call'.opp)
            IN  /\ ret'.type # "error"
                /\ DOMAIN profiles'[call'.opp].bluff_rate = DOMAIN before.bluff_rate
                /\ cat \notin DOMAIN before.bluff_rate => 2 * last_context'[3][4] = Scale
       /\ (call'.op = "observe_showdown" /\ rules["claim_matches_roll"]
             /\ rules["categorize_claim"]) =>
            LET cat == categorize_claim(call'.claim)
                before == ProfileBefore(call'.opp)
                after == profiles'[call'.opp].bluff_rate
            IN  /\ ret'.type = "none"
                /\ DOMAIN after = DOMAIN before.bluff_rate \cup {cat}
                /\ cat \notin DOMAIN before.bluff_rate =>
                     after[cat] = IF claim_matches_roll(call'.claim, call'.roll)
                                  THEN BetaTracker(1, 2) ELSE BetaTracker(2, 1)]_vars

\* C7 witness: decide_action has read "special" for p2, whose profile has no
\* such key, while p1's profile has it.
C7_Witness ==
    /\ call.op = "decide_action" /\ path = "bandit" /\ call.opp = "p2"
    /\ categorize_claim(call.claim) = "special"
    /\ "special" \notin DOMAIN profiles["p2"].bluff_rate
    /\ "p1" \in DOMAIN profiles /\ "special" \in DOMAIN profiles["p1"].bluff_rate

\* The mapping a load_state step was handed.
LoadedArg == IF call'.state = "SavedNow" THEN state_of(A, b, profiles) ELSE LoadInput(call'.state)

DefaultCategories == {"mexican", "double", "normal"}

\* C8 (as claimed): after load_state a loaded profile has exactly the
\* categories the loaded state lists for it.
C8_LoadedCategoriesExact ==
    [][call'.op = "load_state" =>
          \A s \in {LoadedArg} : \A o \in DOMAIN s.profiles :
              DOMAIN profiles'[o].bluff_rate = DOMAIN s.profiles[o].bluff_rate]_vars

\* C8 (amended): after load_state a loaded profile has the categories the
\* loaded state lists, with the loaded counters, and the three categories of
\* every new profile, with their priors when the loaded state does not list
\* them; no other category is there, in the profile or in what state()
\* returns next.
C8_LoadedCategoriesWithDefaults ==
    [][call'.op = "load_state" =>
          \A s \in {LoadedArg} : \A o \in DOMAIN s.profiles :
              LET listed == s.profiles[o].bluff_rate
                  rates == profiles'[o].bluff_rate
              IN  /\ DOMAIN rates = DOMAIN listed \cup DefaultCategories
                  /\ DOMAIN state_of(A', b', profiles').profiles[o].bluff_rate = DOMAIN rates
                  /\ \A k \in DOMAIN listed : <<rates[k].alpha, rates[k].beta>> = listed[k]
                  /\ \A k \in DefaultCategories \ DOMAIN listed :
                        rates[k] = IF k = "mexican" THEN BetaTracker(1, 3)
                                   ELSE IF k = "double" THEN BetaTracker(1, 2)
                                   ELSE BetaTracker(1, 1)]_vars

\* C8 witness: the hand-written state, which lists "double" only, is loaded.
C8_Witness ==
    /\ call.op = "load_state" /\ call.state = "SavedByHand"
    /\ DOMAIN profiles["p2"].bluff_rate = DefaultCategories
    /\ profiles["p2"].bluff_rate["double"] = BetaTracker(2, 2)

\* C9 (as claimed): load_state of a state that state() produced, on any
\* engine, is followed by a state() that returns that same state.
C9_LoadThenSaveIsSame ==
    [][(call'.op = "load_state" /\ call'.state \in {"SavedUsed", "SavedNow"}) =>
          state_of(A', b', profiles') = LoadedArg]_vars

\* C9 (amended): the state() that follows load_state(s), s produced by
\* state(), returns the A and b of s and, for every opponent s names, the
\* profile of s; the opponents the engine knew and s does not name are
\* returned too, as they were, so the whole equals s exactly when the
\* engine knew no opponent beyond those of s (a new engine among them).
C9_LoadThenSaveKeepsLoaded ==
    [][(call'.op = "load_state" /\ call'.state \in {"SavedUsed", "SavedNow"}) =>
          \A s \in {LoadedArg} : \A t \in {state_of(A', b', profiles')} :
              /\ t.bandit = s.bandit
              /\ DOMAIN t.profiles = DOMAIN s.profiles \cup DOMAIN profiles
              /\ \A o \in DOMAIN s.profiles : t.profiles[o] = s.profiles[o]
              /\ \A o \in DOMAIN profiles \ DOMAIN s.profiles :
                    t.profiles[o] = saved_profile(profiles[o])
              /\ DOMAIN profiles \subseteq DOMAIN s.profiles => t = s]_vars

\* C9 witness: the saved state of p1's engine has been loaded into an engine
\* that knows p2 as well.
C9_Witness ==
    /\ call.op = "load_state" /\ call.state = "SavedUsed"
    /\ DOMAIN profiles = {"p1", "p2"}
    /\ A = SavedUsed.bandit.A /\ b = SavedUsed.bandit.b

\* C11: observe_showdown adds 1 to alpha of the opponent's bluff tracker of
\* the claim's category when the claim does not match the roll and 1 to beta
\* when it does, the tracker starting from (1, 1) when the category is new;
\* caller_is_cpu has no part in it.
C11_ShowdownCountsBluff ==
    [][(call'.op = "observe_showdown" /\ ret'.type = "none") =>
          LET cat == categorize_claim(call'.claim)
              before == ProfileBefore(call'.opp).bluff_rate
              old == IF cat \in DOMAIN before THEN before[cat] ELSE BetaTracker(1, 1)
              new == profiles'[call'.opp].bluff_rate[cat]
          IN  IF claim_matches_roll(call'.claim, call'.roll)
              THEN new.alpha = old.alpha /\ new.beta = old.beta + 1
              ELSE new.alpha = old.alpha + 1 /\ new.beta = old.beta]_vars

\* C11 witness: a bluffed "special" claim of a new opponent, the engine
\* being the caller.
C11_Witness ==
    /\ call.op = "observe_showdown" /\ ret.type = "none" /\ call.flag
    /\ ~claim_matches_roll(call.claim, call.roll)
    /\ categorize_claim(call.claim) = "special"
    /\ profiles[call.opp].bluff_rate["special"] = BetaTracker(2, 1)

\* C12: observe_opponent_raise_size counts a success in small_raise_pref
\* when new_claim is next_higher_claim(current_claim) and a failure in every
\* other case: new_claim not above current_claim, or further above.
C12_SmallRaiseIsOneStep ==
    [][(call'.op = "observe_opponent_raise_size" /\ ret'.type = "none") =>
          LET old == ProfileBefore(call'.opp).small_raise_pref
              new == profiles'[call'.opp].small_raise_pref
          IN  IF next_higher_claim(call'.claim) = call'.claim2
              THEN new.alpha = old.alpha + 1 /\ new.beta = old.beta
              ELSE new.alpha = old.alpha /\ new.beta = old.beta + 1]_vars

\* C12 witness: a raise of two steps has been counted as a failure.
C12_Witness ==
    /\ call.op = "observe_opponent_raise_size" /\ ret.type = "none"
    /\ call.claim = <<3, 2>> /\ call.claim2 = <<4, 2>>
    /\ profiles[call.opp].small_raise_pref = BetaTracker(1, 2)

\* C14: a decide_action called with a current claim that returns a raise
\* raises to a claim strictly above the current claim under compare_claims,
\* through the immediate truthful raise and through the bandit alike.
C14_RaiseAboveCurrent ==
    (call.op = "decide_action" /\ call.claim # NoClaim /\ ret.type = "raise") =>
        compare_claims(ret.claim, call.claim) > 0

\* C14 witness: a raise of two steps made after the bandit, with no
\* truthful claim above the current one.
C14_Witness ==
    /\ call.op = "decide_action" /\ path = "bandit" /\ ret.type = "raise"
    /\ canonical_claim_from_roll(call.roll) = call.claim
    /\ ret.claim = next_higher_claim(next_higher_claim(call.claim))

\* C14 witness of the truthful raise: the roll's own claim, above the current one.
C14_WitnessTruthful ==
    /\ call.op = "decide_action" /\ path = "truthful" /\ ret.type = "raise"
    /\ ret.claim = canonical_claim_from_roll(call.roll)

ObservationCallbacks ==
    {"observe_showdown", "observe_our_raise_resolved", "observe_opponent_raise_size"}

\* the names of a profile's trackers
TrackerNames(p) == DOMAIN p.bluff_rate \cup {"call_rate", "small_raise_pref"}

\* the tracker of a profile under a name; a category not there yet is at
\* the prior it is created with
TrackerAt(p, k) ==
    IF k = "call_rate" THEN p.call_rate
    ELSE IF k = "small_raise_pref" THEN p.small_raise_pref
    ELSE IF k \in DOMAIN p.bluff_rate THEN p.bluff_rate[k]
    ELSE BetaTracker(1, 1)

\* the counters in which profile q differs from profile p
ChangedCounters(p, q) ==
    {c \in TrackerNames(q) \X {"alpha", "beta"} :
        TrackerAt(q, c[1])[c[2]] # TrackerAt(p, c[1])[c[2]]}

\* C15: an observation callback that returns has raised one counter of one
\* tracker of the named opponent by 1; the other trackers of that opponent,
\* the profiles of the other opponents, A, b and the slot are as before.
C15_CallbackChangesOneCounter ==
    [][(call'.op \in ObservationCallbacks /\ ret'.type = "none") =>
          LET p == ProfileBefore(call'.opp)
              q == profiles'[call'.opp]
          IN  /\ TrackerNames(p) \subseteq TrackerNames(q)
              /\ Cardinality(ChangedCounters(p, q)) = 1
              /\ \A c \in ChangedCounters(p, q) :
                    TrackerAt(q, c[1])[c[2]] = TrackerAt(p, c[1])[c[2]] + 1
              /\ DOMAIN profiles' = DOMAIN profiles \cup {call'.opp}
              /\ \A o \in DOMAIN profiles \ {call'.opp} : profiles'[o] = profiles[o]
              /\ UNCHANGED <<A, b, last_context>>]_vars

\* C15 witness: a raise of p1 resolved while p2 has a profile and a context
\* is pending.
C15_Witness ==
    /\ call.op = "observe_our_raise_resolved" /\ call.opp = "p1" /\ ret.type = "none"
    /\ "p2" \in DOMAIN profiles /\ last_context # NoContext
    /\ profiles["p1"].call_rate.alpha + profiles["p1"].call_rate.beta = 4

\* C16: among decide_action and observe_round_outcome calls the bandit is
\* changed by observe_round_outcome only, by one update that takes the
\* context out of the slot; the slot is filled by a decide_action through
\* the bandit only, so there are never more updates than such calls.  An
\* observe_round_outcome that follows a decide_action rewards that call's
\* vector when the call went through the bandit and nothing when it did not,
\* whatever the calls before it recorded.
C16_OneUpdatePerRecordedDecide ==
    [][/\ ((A' # A \/ b' # b) /\ call'.op # "load_state") =>
            /\ call'.op = "observe_round_outcome"
            /\ last_context # NoContext /\ last_context' = NoContext
            /\ \A i \in Dims : \A j \in Dims :
                  A'[i][j] = A[i][j] + last_context[3][i] * last_context[3][j]
       /\ (last_context' # NoContext /\ last_context' # last_context) =>
            (call'.op = "decide_action" /\ path' = "bandit")
       /\ (call.op = "decide_action" /\ call'.op = "observe_round_outcome") =>
            IF path = "bandit"
            THEN LET flag == IF ret.type = "raise" THEN 1 ELSE 0
                     x == decide_context(profiles[call.opp], call.claim, call.roll,
                                         call.round, flag)
                     reward == IF call'.flag THEN 1 ELSE -1
                 IN  \A i \in Dims : /\ b'[i] = b[i] + reward * x[i]
                                     /\ \A j \in Dims : A'[i][j] = A[i][j] + x[i] * x[j]
            ELSE UNCHANGED <<A, b>>]_vars

\* C16 witness: a won raise has been rewarded, the one update of the engine.
C16_Witness ==
    /\ call.op = "observe_round_outcome" /\ call.flag
    /\ nLearn = 1 /\ A # Identity /\ b[d] > 0 /\ last_context = NoContext
    /\ profiles # NoProfiles

\* C17: load_state changes A and b, to the loaded ones, and the profiles of
\* the opponents the loaded state names; the profiles of the other opponents
\* and the slot stay as they were, and an observe_round_outcome that follows
\* applies the pending context to the loaded A and b.
C17_LoadKeepsTheRest ==
    [][/\ call'.op = "load_state" =>
            \A s \in {LoadedArg} :
               /\ DOMAIN profiles' = DOMAIN profiles \cup DOMAIN s.profiles
               /\ \A o \in DOMAIN profiles \ DOMAIN s.profiles : profiles'[o] = profiles[o]
               /\ IF "bandit" \in s.keys
                  THEN A' = s.bandit.A /\ b' = s.bandit.b
                  ELSE UNCHANGED <<A, b>>
               /\ UNCHANGED <<last_context, rules>>
               /\ ret'.type = "none"
       /\ (call.op = "load_state" /\ call'.op = "observe_round_outcome"
             /\ last_context # NoContext) =>
            LET x == last_context[3]
                reward == IF call'.flag THEN 1 ELSE -1
            IN  /\ \A i \in Dims : \A j \in Dims : A'[i][j] = A[i][j] + x[i] * x[j]
                /\ \A i \in Dims : b'[i] = b[i] + reward * x[i]
                /\ last_context' = NoContext]_vars

\* C17 witness: the saved state of p1 has been loaded over a context pending
\* for p2, whose profile is the one decide_action made.
C17_Witness ==
    /\ call.op = "load_state" /\ call.state = "SavedUsed"
    /\ last_context # NoContext /\ last_context[1] = "p2"
    /\ "p2" \in DOMAIN profiles /\ profiles["p2"] = OpponentProfile
    /\ profiles["p1"] = SavedUsedProfile
    /\ A = SavedUsedBandit.A

\* C18: with A = I and b = 0 the raise vector has the larger score, so a
\* decide_action that reaches the bandit returns a raise and records
\* (opponent_id, "RAISE", ctx_raise); it never returns call_bluff.
C18_FreshBanditRaises ==
    (call.op = "decide_action" /\ path = "bandit" /\ A = Identity /\ b = Zeros) =>
        \A x_call \in {decide_context(DecidedProfile, call.claim, call.roll, call.round, 0)} :
        \A x_raise \in {decide_context(DecidedProfile, call.claim, call.roll, call.round, 1)} :
           /\ SumSq(x_raise, d) > SumSq(x_call, d)
           /\ LinUCB_choose(A, b, x_call, x_raise) = {"RAISE"}
           /\ ret.type = "raise"
           /\ last_context = <<call.opp, "RAISE", x_raise>>

\* C18 witness: a decide_action has gone through the bandit, which no outcome
\* has updated, on a profile that callbacks have already changed.
C18_Witness ==
    /\ call.op = "decide_action" /\ path = "bandit"
    /\ A = Identity /\ b = Zeros
    /\ ret.type = "raise" /\ last_context # NoContext
    /\ profiles[call.opp] # OpponentProfile

(***************************************************************************)
(* LinUCB alone, under any sequence of update calls.  A and b are in the   *)
(* code's own units here, and the vectors are integer vectors: zero, a     *)
(* unit vector, dense, with negative and with larger entries.              *)
(***************************************************************************)
FeatureInputs ==
    { <<0, 0, 0, 0, 0, 0, 0, 0, 0>>,
      <<1, 0, 0, 0, 0, 0, 0, 0, 0>>,
      <<1, 1, 1, 1, 1, 1, 1, 1, 1>>,
      <<1, -1, 0, 0, 0, 0, 0, 0, 0>>,
      <<0, 0, 1, 0, -1, 0, 2, 0, 1>>,
      <<-2, 0, 0, 1, 0, 0, 0, 0, 2>> }

RewardInputs == {-1, 1}

\* LinUCB(d): A = np.eye(d), b = np.zeros((d, 1))
InitBandit ==
    /\ rules = [r \in RuleNames |-> FALSE]
    /\ profiles = NoProfiles
    /\ A = Eye(1)
    /\ b = Zeros
    /\ last_context = NoContext
    /\ call = Call("LinUCB", "p1", NoClaim, <<1, 1>>, NoClaim, 0, FALSE, NoState)
    /\ ret = RetNone
    /\ path = "none"
    /\ nLearn = 0
    /\ draw = 0

\* LinUCB.update(x, reward)
bandit_update(x, reward) ==
    /\ nLearn < MaxBanditUpdates
    /\ LET new == LinUCB_update(A, b, x, reward)
       IN  A' = new.A /\ b' = new.b
    /\ nLearn' = nLearn + 1
    /\ call' = Call("update", "p1", NoClaim, <<1, 1>>, NoClaim, 0, reward = 1, NoState)
    /\ ret' = RetNone
    /\ UNCHANGED <<rules, profiles, last_context, path, draw>>

NextBandit == \E x \in FeatureInputs, reward \in RewardInputs : bandit_update(x, reward)

SpecBandit == InitBandit /\ [][NextBandit]_vars

Symmetric(M) == \A i \in Dims : \A j \in Dims : M[i][j] = M[j][i]

\* Sylvester's criterion by fraction-free elimination: at step k the entry
\* M[k][k] is the leading principal minor of order k of the matrix given at
\* step 1, and every division is exact.
\* one step of the elimination on pivot k
Eliminate(M, k, prev) ==
    [i \in Dims |-> [j \in Dims |->
        IF i > k /\ j > k
        THEN (M[k][k] * M[i][j] - M[i][k] * M[k][j]) \div prev
        ELSE M[i][j]]]

\* (the comparison of M with itself has TLC compute M once, not at each read)
RECURSIVE PivotsPositive(_, _, _)
PivotsPositive(M, k, prev) ==
    IF M # M \/ M[k][k] <= 0 THEN FALSE
    ELSE IF k = d THEN TRUE
    ELSE PivotsPositive(Eliminate(M, k, prev), k + 1, M[k][k])

PositiveDefinite(M) == Symmetric(M) /\ PivotsPositive(M, 1, 1)

\* C10: from A = identity, after any sequence of update calls the matrix A
\* is symmetric and positive-definite, hence invertible.
C10_DesignMatrixPositiveDefinite == PositiveDefinite(A)

\* C10 witness: updates with both rewards have filled A off the diagonal.
C10_Witness ==
    /\ call.op = "update" /\ nLearn >= 2
    /\ \E i \in Dims : \E j \in Dims : i # j /\ A[i][j] # 0
    /\ \E i \in Dims : b[i] < 0
    /\ \E i \in Dims : b[i] > 0

(***************************************************************************)
(* _pick_pressure_claim alone, as decide_action calls it (allow_bluff      *)
(* True), on a claim, an opponent's call_rate and a draw.                  *)
(***************************************************************************)
PressureClaims == {<<3, 1>>, <<4, 1>>, <<6, 5>>, <<4, 4>>}

\* (alpha, beta) of call_rate: means 1/3, 1/2, 4/7, 3/5, 2/3, 5/7, 3/4
CallRateInputs == {<<1, 2>>, <<1, 1>>, <<4, 3>>, <<3, 2>>, <<4, 2>>, <<5, 2>>, <<3, 1>>}

\* draws on both sides of 0.25 and of 0.50, the two values included
PressureDraws == {0, 10, 24, 25, 30, 49, 50, 60, 99}

InitPressure ==
    /\ rules = [n \in RuleNames |-> TRUE]
    /\ profiles = NoProfiles
    /\ A = Identity
    /\ b = Zeros
    /\ last_context = NoContext
    /\ call = Call("__init__", "p1", NoClaim, <<1, 1>>, NoClaim, 0, FALSE, NoState)
    /\ ret = RetNone
    /\ path = "none"
    /\ nLearn = 0
    /\ draw = 0

\* self._pick_pressure_claim(current_claim, True, opp), opp with the call_rate given
pressure_pick(current_claim, rate, r) ==
    LET opp == [OpponentProfile EXCEPT !.call_rate = BetaTracker(rate[1], rate[2])]
    IN  /\ profiles' = [o \in {"p1"} |-> opp]
        /\ draw' = r
        /\ call' = Call("_pick_pressure_claim", "p1", current_claim, <<1, 1>>, NoClaim,
                        0, TRUE, NoState)
        /\ ret' = RetRaise(pick_pressure_claim(current_claim, TRUE, opp, r))
        /\ UNCHANGED <<rules, A, b, last_context, path, nLearn>>

NextPressure ==
    \E c \in PressureClaims, rate \in CallRateInputs, r \in PressureDraws :
        pressure_pick(c, rate, r)

SpecPressure == InitPressure /\ [][NextPressure]_vars

\* the number of steps the claim fixes for a call-rate tracker and a draw
PressureSteps(t, r) ==
    IF 100 * t.alpha > 65 * (t.alpha + t.beta) /\ r < 25 THEN 3
    ELSE IF 100 * t.alpha > 55 * (t.alpha + t.beta) /\ r < 50 THEN 2
    ELSE 1

\* C13: the pressure claim is k next_higher_claim steps above the current
\* claim, k = 3 when the call-rate mean is above 0.65 and the one draw r is
\* under 0.25, k = 2 when the mean is above 0.55, r is under 0.50 and k is
\* not 3, and k = 1 otherwise.
C13_PressureClaimSteps ==
    call.op = "_pick_pressure_claim" =>
        /\ compare_claims(ret.claim, call.claim) > 0
        /\ Rank(ret.claim) = Rank(call.claim) + PressureSteps(profiles["p1"].call_rate, draw)

\* C13 witness: three steps, for a mean of 2/3 and a draw under 0.25.
C13_Witness ==
    /\ call.op = "_pick_pressure_claim" /\ call.claim = <<6, 5>>
    /\ profiles["p1"].call_rate = BetaTracker(4, 2) /\ draw = 24
    /\ ret.claim = <<3, 3>>

====
